---------------------------- MODULE Spec2Model ----------------------------
(***************************************************************************)
(* Radar Timeline Engine of wetterpendeln-web-app                          *)
(* (src/components/views/radar-view.tsx).                                  *)
(*                                                                         *)
(* The React component RadarView is modelled as a state machine: its       *)
(* useState cells are the variables, every event handler, promise          *)
(* continuation and timer callback is one action, and the playback         *)
(* useEffect (deps [isPlaying, radarData]) is re-run as part of every      *)
(* action that changes one of its dependencies.                            *)
(*                                                                         *)
(* The Location Store (LocationProvider, src/unnamed/part_000) is modelled *)
(* the same way: its useState cells, the pending updateFromGPS calls and   *)
(* the two localStorage records are the state, and the save effect         *)
(* (deps [location]) runs as part of every action that calls setLocation.  *)
(***************************************************************************)
EXTENDS Integers, Sequences, FiniteSets, TLC

(***************************************************************************)
(* Bounds of the model.                                                    *)
(***************************************************************************)
MaxPast == 4       \* longest radar.past array a manifest carries
MaxNowcast == 3    \* longest radar.nowcast array a manifest carries
MaxFetches == 2    \* loadRadarData calls per mounted component instance
MaxMounts == 2     \* times the radar tab is opened
MaxGpsCalls == 2   \* updateFromGPS calls per run
MaxPos == 2        \* distinct positions a fix or a manual entry can carry
MaxClock == 2      \* values Date.now() takes
MaxRestarts == 1   \* process restarts (page reloads)

(***************************************************************************)
(* JavaScript numbers: currentFrame is a non-negative integer or NaN.      *)
(* NaN is kept as a value outside the naturals; arithmetic on it and a     *)
(* remainder by zero yield NaN, as in JavaScript.                          *)
(***************************************************************************)
NaN == 0 - 1

JsAdd(a, b) == IF a = NaN \/ b = NaN THEN NaN ELSE a + b

JsMod(a, n) == IF a = NaN \/ n = NaN \/ n = 0 THEN NaN ELSE a % n

MathMax(a, b) == IF a >= b THEN a ELSE b

MathMin(a, b) == IF a <= b THEN a ELSE b

\* Math.floor(minutesFromNow / 10): rounds towards minus infinity
FloorDiv10(m) == m \div 10

(***************************************************************************)
(* State.                                                                  *)
(***************************************************************************)
VARIABLES
    mounted,       \* the RadarView component is displayed (radar tab active)
    mounts,        \* how many times the tab has been opened
    radarData,     \* useState<RainViewerData | null>
    currentFrame,  \* useState(0)
    isPlaying,     \* useState(false)
    loading,       \* useState(true)
    error,         \* useState<string | null>(null): is the message set
    timers,        \* live setInterval timers, each with the frames it captured
    inflight,      \* loadRadarData calls awaiting the network, each with
                   \* isPlaying at the time of the call
    fetches,       \* loadRadarData calls issued by this component instance
    lastOp,        \* the operation that produced the current state
    streak,        \* ticks since the last other operation, and where they began
    location,      \* useState<LocationState>(DEFAULT_LOCATION)
    gpsLoading,    \* the store's isLoading
    locationError, \* the store's error: "none" for null, else the message
    hasGeo,        \* navigator.geolocation exists
    gps,           \* the updateFromGPS calls: phase and fix
    now,           \* Date.now()
    storedState,   \* localStorage["wetterpendeln-location-state"]
    storedLegacy,  \* localStorage["wetterpendeln-last-location"]
    hydrated,      \* the mount effects of LocationProvider have run
    journal        \* what the store did before: outcome of the last save
                   \* effect, the operation before the last one, and the
                   \* operation and LocationState the previous run ended with

radarCells == <<mounted, mounts, radarData, currentFrame, isPlaying, loading,
                error, timers, inflight, fetches, streak>>

locCells == <<location, gpsLoading, locationError, hasGeo, gps, now,
              storedState, storedLegacy, hydrated, journal>>

vars == <<mounted, mounts, radarData, currentFrame, isPlaying, loading, error,
          timers, inflight, fetches, lastOp, streak, location, gpsLoading,
          locationError, hasGeo, gps, now, storedState, storedLegacy,
          hydrated, journal>>

NoData == [id |-> 0, past |-> 0, nowcast |-> 0]

\* allFrames.length: radarData ? [...past, ...nowcast].length : 0
AllFramesLength(data) == IF data = NoData THEN 0 ELSE data.past + data.nowcast

\* radarData?.radar.past?.length || 0
PastCount(data) == IF data = NoData THEN 0 ELSE data.past

QuickSelect == {0 - 30, 0, 30, 60}

\* minute offsets handed to jumpToTime: the four buttons and values between
JumpMinutes == QuickSelect \cup {0 - 35, 0 - 25, 0 - 5, 5, 15}

\* lastOp: the handler that ran last, its argument, and isPlaying before it
NoOp == [op |-> "none", arg |-> 0, playing |-> FALSE]

Op(name, a) == [op |-> name, arg |-> a, playing |-> isPlaying]

NoStreak == [n |-> 0, start |-> 0]

(***************************************************************************)
(* The playback effect: useEffect(..., [isPlaying, radarData]).            *)
(* When a dependency changed, the cleanup of the previous run clears the   *)
(* interval it created and the body creates a new one unless playback is   *)
(* off or no manifest is loaded.                                           *)
(***************************************************************************)
EffectCleanupLeak(ts) == ts

EffectCleanup(ts) == << >>

EffectDepsChanged(oldPlaying, oldData, newPlaying, newData) ==
    oldPlaying # newPlaying \/ oldData # newData

PlaybackEffect(ts, oldPlaying, oldData, newPlaying, newData) ==
    IF ~EffectDepsChanged(oldPlaying, oldData, newPlaying, newData)
    THEN ts
    ELSE IF ~newPlaying \/ newData = NoData
         THEN EffectCleanup(ts)
         ELSE Append(EffectCleanup(ts),
                     [id |-> newData.id, len |-> AllFramesLength(newData)])

(***************************************************************************)
(* Initial state: the component has just been mounted, the mount effect    *)
(* has called init(), which awaits the first loadRadarData().              *)
(***************************************************************************)
Fresh ==
    /\ radarData = NoData
    /\ currentFrame = 0
    /\ isPlaying = FALSE
    /\ loading = TRUE
    /\ error = FALSE
    /\ timers = << >>
    /\ inflight = {[id |-> 1, kind |-> "init", playing |-> FALSE]}
    /\ fetches = 1
    /\ lastOp = NoOp
    /\ streak = NoStreak

(***************************************************************************)
(* Location Store: values.  A position p stands for the coordinate pair    *)
(* (LatOf(p), LonOf(p)); Null stands for null.                             *)
(***************************************************************************)
Null == 0

Positions == 1..MaxPos

LatOf(p) == p

LonOf(p) == 10 + p

ManualLabels == {"X"}

GeoName == "Berlin"

FallbackLabel == "Aktueller Standort"

CallIds == 1..MaxGpsCalls

DEFAULT_LOCATION ==
    [lat |-> Null, lon |-> Null, cityLabel |-> "", source |-> "manual",
     lastUpdated |-> 0]

\* GeolocationPositionError codes
PERMISSION_DENIED == 1

POSITION_UNAVAILABLE == 2

TIMEOUT == 3

ErrorCodes == {PERMISSION_DENIED, POSITION_UNAVAILABLE, TIMEOUT, 4}

IdleCall == [phase |-> "idle", lat |-> Null, lon |-> Null]

Empty == [kind |-> "empty"]

\* a primary record that getItem or JSON.parse throws on
Corrupt == [kind |-> "corrupt"]

\* JSON.stringify of a number: NaN (like every non-finite number) is written
\* as null, a finite number as its digits
JsonNumber(x) == IF x = NaN THEN Null ELSE x

\* JSON.stringify(location) as stored under the primary key: the text holds
\* the five members of the object
Serialize(loc) ==
    [kind |-> "state",
     text |-> [lat |-> JsonNumber(loc.lat), lon |-> JsonNumber(loc.lon),
               cityLabel |-> loc.cityLabel, source |-> loc.source,
               lastUpdated |-> JsonNumber(loc.lastUpdated)]]

\* JSON.stringify({lat, lon, name: cityLabel}) as stored under the legacy key
SerializeLegacy(loc) ==
    [kind |-> "legacy",
     text |-> [lat |-> JsonNumber(loc.lat), lon |-> JsonNumber(loc.lon),
               name |-> loc.cityLabel]]

ParseWithoutTimestamp(rec) ==
    [k \in DOMAIN rec.text |-> IF k = "lastUpdated" THEN 0 ELSE rec.text[k]]

\* JSON.parse(saved): an object with the members the text holds
Parse(rec) == [k \in DOMAIN rec.text |-> rec.text[k]]

\* a record left in storage by an earlier run
EarlierRecord ==
    [lat |-> LatOf(1), lon |-> LonOf(1), cityLabel |-> "X",
     source |-> "manual", lastUpdated |-> 1]

NoRun == [op |-> "none", arg |-> 0, w |-> "none", location |-> DEFAULT_LOCATION]

NoJournal == [w |-> "none", prev |-> "none", restarts |-> 0, run |-> NoRun]

\* the store right after LocationProvider is constructed
LocFresh ==
    /\ location = DEFAULT_LOCATION
    /\ gpsLoading = FALSE
    /\ locationError = "none"
    /\ gps = [c \in CallIds |-> IdleCall]
    /\ now = 1
    /\ journal = NoJournal

Init ==
    /\ mounted = TRUE
    /\ mounts = 1
    /\ Fresh
    /\ LocFresh
    /\ hasGeo = TRUE
    /\ storedState = Empty
    /\ storedLegacy = Empty
    /\ hydrated = TRUE

\* start of a run of the Location Store: storage holds nothing, a record of
\* an earlier run, or something that does not parse
LocInit ==
    /\ mounted = TRUE
    /\ mounts = 1
    /\ Fresh
    /\ LocFresh
    /\ hasGeo \in BOOLEAN
    /\ \/ storedState = Empty /\ storedLegacy = Empty
       \/ storedState = Corrupt /\ storedLegacy = Empty
       \/ /\ storedState = Serialize(EarlierRecord)
          /\ storedLegacy = SerializeLegacy(EarlierRecord)
    /\ hydrated = FALSE

(***************************************************************************)
(* Values the handlers compute.                                            *)
(***************************************************************************)
ResetFrameOffByOne(data) == MathMax(0, PastCount(data))

\* loadRadarData: Math.max(0, pastFrames - 1)
ResetFrame(data) == MathMax(0, PastCount(data) - 1)

JumpTargetTruncating(data, m) ==
    LET q == IF m >= 0 THEN m \div 10 ELSE 0 - ((0 - m) \div 10)
        targetFrame == PastCount(data) - 1 + q
    IN MathMax(0, MathMin(AllFramesLength(data) - 1, targetFrame))

\* jumpToTime: Math.max(0, Math.min(allFrames.length - 1, targetFrame))
JumpTarget(data, m) ==
    LET targetFrame == PastCount(data) - 1 + FloorDiv10(m)
    IN MathMax(0, MathMin(AllFramesLength(data) - 1, targetFrame))

TickNextSaturating(prev, len) ==
    IF JsAdd(prev, 1) >= len THEN prev ELSE JsAdd(prev, 1)

\* interval callback: (prev + 1) % allFrames.length
TickNext(prev, len) == JsMod(JsAdd(prev, 1), len)

SkipEndFramePastEnd(data) == AllFramesLength(data)

\* skip-to-end button: allFrames.length - 1
SkipEndFrame(data) == AllFramesLength(data) - 1

GetMinutesOffsetNoShift(data, frameIndex) ==
    IF data = NoData THEN 0 ELSE (frameIndex - PastCount(data)) * 10

\* getMinutesOffset: (frameIndex - pastCount + 1) * 10, 0 without a manifest
GetMinutesOffset(data, frameIndex) ==
    IF data = NoData THEN 0 ELSE (frameIndex - PastCount(data) + 1) * 10

\* getRainText: which status line is shown for the frame
GetRainText(data, frameIndex) ==
    IF data = NoData THEN "none"
    ELSE IF GetMinutesOffset(data, frameIndex) > 0 THEN "Vorhersage"
    ELSE IF GetMinutesOffset(data, frameIndex) < 0 THEN "Vergangenheit"
    ELSE "Aktuelle Radardaten"

IsForecastFrameStrict(data, frameIndex) == frameIndex > PastCount(data)

\* forecast badge: currentFrame >= pastFrameCount
IsForecastFrame(data, frameIndex) == frameIndex >= PastCount(data)

\* the playback controls are rendered: past the loading return, frames exist
ControlsShown == mounted /\ ~loading /\ AllFramesLength(radarData) > 0

(***************************************************************************)
(* Actions.                                                                *)
(***************************************************************************)
\* A further call of loadRadarData() on the mounted component (re-fetch).
Refetch ==
    /\ mounted
    /\ fetches < MaxFetches
    /\ fetches' = fetches + 1
    /\ inflight' = inflight \cup {[id |-> fetches + 1, kind |-> "refetch",
                                  playing |-> isPlaying]}
    /\ lastOp' = Op("refetch", fetches + 1)
    /\ streak' = NoStreak
    /\ UNCHANGED <<mounted, mounts, radarData, currentFrame, isPlaying,
                   loading, error, timers>>

\* fetch and response.json() succeed: setRadarData(data); setCurrentFrame(..)
\* and, for the call made by init(), setLoading(false) after the await.
FetchOk(f, n, m) ==
    /\ mounted
    /\ f \in inflight
    /\ LET data == [id |-> f.id, past |-> n, nowcast |-> m]
       IN /\ radarData' = data
          /\ currentFrame' = ResetFrame(data)
          /\ timers' = PlaybackEffect(timers, isPlaying, radarData,
                                      isPlaying, data)
    /\ loading' = IF f.kind = "init" THEN FALSE ELSE loading
    /\ inflight' = inflight \ {f}
    /\ lastOp' = Op("fetchOk", f.id)
    /\ streak' = NoStreak
    /\ UNCHANGED <<mounted, mounts, isPlaying, error, fetches>>

FetchFailStaysLoading(f) ==
    /\ mounted
    /\ f \in inflight
    /\ error' = TRUE
    /\ inflight' = inflight \ {f}
    /\ lastOp' = Op("fetchFail", f.id)
    /\ streak' = NoStreak
    /\ UNCHANGED <<mounted, mounts, radarData, currentFrame, isPlaying,
                   loading, timers, fetches>>

FetchFailClearsFrames(f) ==
    /\ mounted
    /\ f \in inflight
    /\ error' = TRUE
    /\ radarData' = NoData
    /\ currentFrame' = 0
    /\ timers' = PlaybackEffect(timers, isPlaying, radarData, isPlaying, NoData)
    /\ loading' = IF f.kind = "init" THEN FALSE ELSE loading
    /\ inflight' = inflight \ {f}
    /\ lastOp' = Op("fetchFail", f.id)
    /\ streak' = NoStreak
    /\ UNCHANGED <<mounted, mounts, isPlaying, fetches>>

\* fetch or response.json() throws: the catch block sets the error message
FetchFail(f) ==
    /\ mounted
    /\ f \in inflight
    /\ error' = TRUE
    /\ loading' = IF f.kind = "init" THEN FALSE ELSE loading
    /\ inflight' = inflight \ {f}
    /\ lastOp' = Op("fetchFail", f.id)
    /\ streak' = NoStreak
    /\ UNCHANGED <<mounted, mounts, radarData, currentFrame, isPlaying,
                   timers, fetches>>

\* the server answers with a non-2xx status: fetch() resolves all the same and
\* response.ok / response.status are never read, so a body that parses as
\* JSON takes the success path and one that does not takes the catch block
FetchNon2xx(f, parses, n, m) ==
    /\ mounted
    /\ f \in inflight
    /\ IF parses
       THEN LET data == [id |-> f.id, past |-> n, nowcast |-> m]
            IN /\ radarData' = data
               /\ currentFrame' = ResetFrame(data)
               /\ timers' = PlaybackEffect(timers, isPlaying, radarData,
                                           isPlaying, data)
               /\ UNCHANGED error
       ELSE /\ error' = TRUE
            /\ UNCHANGED <<radarData, currentFrame, timers>>
    /\ loading' = IF f.kind = "init" THEN FALSE ELSE loading
    /\ inflight' = inflight \ {f}
    /\ lastOp' = Op("fetchNon2xx", f.id)
    /\ streak' = NoStreak
    /\ UNCHANGED <<mounted, mounts, isPlaying, fetches>>

\* the callback of a live interval fires
Tick(i) ==
    /\ i \in 1..Len(timers)
    /\ currentFrame' = TickNext(currentFrame, timers[i].len)
    /\ lastOp' = Op("tick", timers[i].id)
    /\ streak' = IF streak.n = 0 \/ streak.n >= timers[i].len
                 THEN [n |-> 1, start |-> currentFrame]
                 ELSE [n |-> streak.n + 1, start |-> streak.start]
    /\ UNCHANGED <<mounted, mounts, radarData, isPlaying, loading, error,
                   timers, inflight, fetches>>

\* play / pause button: setIsPlaying(!isPlaying)
TogglePlay ==
    /\ ControlsShown
    /\ isPlaying' = ~isPlaying
    /\ timers' = PlaybackEffect(timers, isPlaying, radarData,
                                ~isPlaying, radarData)
    /\ lastOp' = Op("toggle", 0)
    /\ streak' = NoStreak
    /\ UNCHANGED <<mounted, mounts, radarData, currentFrame, loading, error,
                   inflight, fetches>>

\* skip-to-start button: setCurrentFrame(0)
SkipToStart ==
    /\ ControlsShown
    /\ currentFrame' = 0
    /\ lastOp' = Op("skipStart", 0)
    /\ streak' = NoStreak
    /\ UNCHANGED <<mounted, mounts, radarData, isPlaying, loading, error,
                   timers, inflight, fetches>>

\* skip-to-end button: setCurrentFrame(allFrames.length - 1)
SkipToEnd ==
    /\ ControlsShown
    /\ currentFrame' = SkipEndFrame(radarData)
    /\ lastOp' = Op("skipEnd", 0)
    /\ streak' = NoStreak
    /\ UNCHANGED <<mounted, mounts, radarData, isPlaying, loading, error,
                   timers, inflight, fetches>>

\* slider with min 0, max allFrames.length - 1, step 1: setCurrentFrame(value)
SliderChange(v) ==
    /\ ControlsShown
    /\ v \in 0..(AllFramesLength(radarData) - 1)
    /\ currentFrame' = v
    /\ lastOp' = Op("slider", v)
    /\ streak' = NoStreak
    /\ UNCHANGED <<mounted, mounts, radarData, isPlaying, loading, error,
                   timers, inflight, fetches>>

JumpToTimeKeepsPlaying(m) ==
    /\ mounted
    /\ ~loading
    /\ IF radarData = NoData
       THEN UNCHANGED currentFrame
       ELSE currentFrame' = JumpTarget(radarData, m)
    /\ lastOp' = Op("jump", m)
    /\ streak' = NoStreak
    /\ UNCHANGED <<mounted, mounts, radarData, isPlaying, timers, loading,
                   error, inflight, fetches>>

\* quick-select button: jumpToTime(minutesFromNow)
JumpToTime(m) ==
    /\ mounted
    /\ ~loading
    /\ IF radarData = NoData
       THEN UNCHANGED <<currentFrame, isPlaying, timers>>
       ELSE /\ currentFrame' = JumpTarget(radarData, m)
            /\ isPlaying' = FALSE
            /\ timers' = PlaybackEffect(timers, isPlaying, radarData,
                                        FALSE, radarData)
    /\ lastOp' = Op("jump", m)
    /\ streak' = NoStreak
    /\ UNCHANGED <<mounted, mounts, radarData, loading, error, inflight,
                   fetches>>

\* another tab is selected: the component unmounts, the effect cleanup runs;
\* continuations of its pending fetches call setState on a dead component,
\* which has no effect
Unmount ==
    /\ mounted
    /\ mounted' = FALSE
    /\ timers' = EffectCleanup(timers)
    /\ inflight' = {}
    /\ lastOp' = Op("unmount", 0)
    /\ streak' = NoStreak
    /\ UNCHANGED <<mounts, radarData, currentFrame, isPlaying, loading,
                   error, fetches>>

\* the radar tab is selected again: a new component instance with fresh state
Mount ==
    /\ ~mounted
    /\ mounts < MaxMounts
    /\ mounted' = TRUE
    /\ mounts' = mounts + 1
    /\ radarData' = NoData
    /\ currentFrame' = 0
    /\ isPlaying' = FALSE
    /\ loading' = TRUE
    /\ error' = FALSE
    /\ timers' = << >>
    /\ inflight' = {[id |-> 1, kind |-> "init", playing |-> FALSE]}
    /\ fetches' = 1
    /\ lastOp' = NoOp
    /\ streak' = NoStreak

Next ==
    \/ Refetch /\ UNCHANGED locCells
    \/ \E f \in inflight, n \in 0..MaxPast, m \in 0..MaxNowcast :
          FetchOk(f, n, m) /\ UNCHANGED locCells
    \/ \E f \in inflight : FetchFail(f) /\ UNCHANGED locCells
    \/ \E f \in inflight, parses \in BOOLEAN, n \in {0, 1}, m \in {0, 1} :
          /\ FetchNon2xx(f, parses, IF parses THEN n ELSE 0,
                         IF parses THEN m ELSE 0)
          /\ UNCHANGED locCells
    \/ \E i \in 1..Len(timers) : Tick(i) /\ UNCHANGED locCells
    \/ TogglePlay /\ UNCHANGED locCells
    \/ SkipToStart /\ UNCHANGED locCells
    \/ SkipToEnd /\ UNCHANGED locCells
    \/ \E v \in 0..(MaxPast + MaxNowcast) : SliderChange(v) /\ UNCHANGED locCells
    \/ \E m \in JumpMinutes : JumpToTime(m) /\ UNCHANGED locCells
    \/ Unmount /\ UNCHANGED locCells
    \/ Mount /\ UNCHANGED locCells

Spec == Init /\ [][Next]_vars

\* a pending loadRadarData call settles: the network answers or fails
FetchSettles ==
    /\ \E f \in inflight :
          \/ \E n \in 0..MaxPast, m \in 0..MaxNowcast : FetchOk(f, n, m)
          \/ FetchFail(f)
          \/ \E parses \in BOOLEAN : FetchNon2xx(f, parses, 0, 0)
    /\ UNCHANGED locCells

\* the radar engine under the assumption that every fetch settles
LiveSpec == Spec /\ WF_vars(FetchSettles)


(***************************************************************************)
(* Location Store: what the handlers compute.                              *)
(***************************************************************************)
GpsErrorMessageNoTimeout(code) ==
    IF code = PERMISSION_DENIED THEN "Standortzugriff wurde verweigert."
    ELSE IF code = POSITION_UNAVAILABLE
         THEN "Standortinformationen sind nicht verfuegbar."
    ELSE "Ein unbekannter Fehler ist aufgetreten."

\* error callback: switch (err.code)
GpsErrorMessage(code) ==
    IF code = PERMISSION_DENIED THEN "Standortzugriff wurde verweigert."
    ELSE IF code = POSITION_UNAVAILABLE
         THEN "Standortinformationen sind nicht verfuegbar."
    ELSE IF code = TIMEOUT THEN "Zeitueberschreitung bei der Standortabfrage."
    ELSE "Ein unbekannter Fehler ist aufgetreten."

UnsupportedMessage == "Geolocation wird von Ihrem Browser nicht unterstuetzt."

GeocodeOutcomes == {"name", "noName", "fail"}

\* data.results?.[0]?.name || "Aktueller Standort", and the catch block
GeocodeLabel(outcome) == IF outcome = "name" THEN GeoName ELSE FallbackLabel

GpsLocationLatOnly(lat, lon, name, t) ==
    [lat |-> lat, lon |-> Null, cityLabel |-> name, source |-> "gps",
     lastUpdated |-> t]

\* the record the success callback hands to setLocation
GpsLocation(lat, lon, name, t) ==
    [lat |-> lat, lon |-> lon, cityLabel |-> name, source |-> "gps",
     lastUpdated |-> t]

ManualLocationAsGps(lat, lon, label, t) ==
    [lat |-> lat, lon |-> lon, cityLabel |-> label, source |-> "gps",
     lastUpdated |-> t]

\* the record updateManual hands to setLocation
ManualLocation(lat, lon, label, t) ==
    [lat |-> lat, lon |-> lon, cityLabel |-> label, source |-> "manual",
     lastUpdated |-> t]

LoadingAfterStartAlways(has, old) == TRUE

\* updateFromGPS: setIsLoading(true) is reached only past the capability check
LoadingAfterStart(has, old) == IF has THEN TRUE ELSE old

AfterErrorCallbackNoResolve == "hung"

\* the error callback ends with resolve()
AfterErrorCallback == "resolved"

\* localStorage.setItem succeeds, or throws at the first or the second call
WriteOutcomes == {"ok", "throwFirst", "throwSecond"}

\* storage that accepts every write
WritesSucceed == {"ok"}

SaveEffectLegacyOnly(loc, w, primary, legacy) ==
    IF loc.lat # Null /\ loc.lon # Null /\ w = "ok"
    THEN <<primary, SerializeLegacy(loc)>>
    ELSE <<primary, legacy>>

\* the save effect, run after setLocation: both records are written when
\* both coordinates are non-null; a throwing setItem ends the try block
SaveEffect(loc, w, primary, legacy) ==
    IF loc.lat # Null /\ loc.lon # Null
    THEN IF w = "ok" THEN <<Serialize(loc), SerializeLegacy(loc)>>
         ELSE IF w = "throwSecond" THEN <<Serialize(loc), legacy>>
         ELSE <<primary, legacy>>
    ELSE <<primary, legacy>>

\* what the save effect did for a new LocationState: nothing without
\* coordinates, else the outcome of its try block
SaveOutcome(loc, w) == IF loc.lat # Null /\ loc.lon # Null THEN w ELSE "none"

\* journal after an operation that called setLocation(loc)
Saved(loc, w) == [journal EXCEPT !.w = SaveOutcome(loc, w), !.prev = lastOp.op]

\* journal after an operation that did not
NotSaved == [journal EXCEPT !.prev = lastOp.op]

\* Date.now() at a later call: the same millisecond or a later one
Times == {t \in 1..MaxClock : t = now \/ t = now + 1}

\* the next updateFromGPS call
NextCall(c) == gps[c].phase = "idle" /\ \A d \in CallIds : d < c => gps[d].phase # "idle"

(***************************************************************************)
(* Location Store: actions.                                                *)
(***************************************************************************)
RehydrateReportsFailure(w) ==
    /\ ~hydrated
    /\ hydrated' = TRUE
    /\ IF storedState.kind = "state"
       THEN /\ location' = Parse(storedState)
            /\ storedState' = SaveEffect(Parse(storedState), w, storedState,
                                         storedLegacy)[1]
            /\ storedLegacy' = SaveEffect(Parse(storedState), w, storedState,
                                          storedLegacy)[2]
            /\ journal' = Saved(Parse(storedState), w)
            /\ UNCHANGED locationError
       ELSE /\ journal' = NotSaved
            /\ locationError' = (IF storedState = Corrupt
                                  THEN "Fehler beim Laden des Standorts"
                                  ELSE locationError)
            /\ UNCHANGED <<location, storedState, storedLegacy>>
    /\ lastOp' = Op("rehydrate", 0)
    /\ UNCHANGED <<gpsLoading, hasGeo, gps, now>>

\* mount of LocationProvider: the load effect reads the primary record, the
\* save effect runs for the default state (no write) and again for the
\* parsed one
Rehydrate(w) ==
    /\ ~hydrated
    /\ hydrated' = TRUE
    /\ IF storedState.kind = "state"
       THEN /\ location' = Parse(storedState)
            /\ storedState' = SaveEffect(Parse(storedState), w, storedState,
                                         storedLegacy)[1]
            /\ storedLegacy' = SaveEffect(Parse(storedState), w, storedState,
                                          storedLegacy)[2]
            /\ journal' = Saved(Parse(storedState), w)
       ELSE /\ journal' = NotSaved
            /\ UNCHANGED <<location, storedState, storedLegacy>>
    /\ lastOp' = Op("rehydrate", 0)
    /\ UNCHANGED <<gpsLoading, locationError, hasGeo, gps, now>>

\* updateFromGPS() up to getCurrentPosition, or up to the early return
GpsStart(c) ==
    /\ hydrated
    /\ NextCall(c)
    /\ gpsLoading' = LoadingAfterStart(hasGeo, gpsLoading)
    /\ IF hasGeo
       THEN /\ locationError' = "none"
            /\ gps' = [gps EXCEPT ![c].phase = "acquiring"]
            /\ lastOp' = Op("gpsStart", c)
       ELSE /\ locationError' = UnsupportedMessage
            /\ gps' = [gps EXCEPT ![c].phase = "resolved"]
            /\ lastOp' = Op("gpsUnsupported", c)
    /\ journal' = NotSaved
    /\ UNCHANGED <<location, hasGeo, now, storedState, storedLegacy, hydrated>>

\* success callback up to the await of the reverse-geocoding fetch
GpsFix(c, p) ==
    /\ gps[c].phase = "acquiring"
    /\ gps' = [gps EXCEPT ![c].phase = "geocoding", ![c].lat = LatOf(p),
                          ![c].lon = LonOf(p)]
    /\ lastOp' = Op("gpsFix", c)
    /\ journal' = NotSaved
    /\ UNCHANGED <<location, gpsLoading, locationError, hasGeo, now,
                   storedState, storedLegacy, hydrated>>

\* error callback
GpsError(c, code) ==
    /\ gps[c].phase = "acquiring"
    /\ gpsLoading' = FALSE
    /\ locationError' = GpsErrorMessage(code)
    /\ gps' = [gps EXCEPT ![c].phase = AfterErrorCallback]
    /\ lastOp' = Op("gpsError", code)
    /\ journal' = NotSaved
    /\ UNCHANGED <<location, hasGeo, now, storedState, storedLegacy, hydrated>>

GeocodeSettleKeepsManual(c, outcome, t, w) ==
    /\ gps[c].phase = "geocoding"
    /\ t \in Times
    /\ LET loc == IF location.source = "manual" /\ location.lat # Null
                  THEN location
                  ELSE GpsLocation(gps[c].lat, gps[c].lon,
                                   GeocodeLabel(outcome), t)
       IN /\ location' = loc
          /\ storedState' = SaveEffect(loc, w, storedState, storedLegacy)[1]
          /\ storedLegacy' = SaveEffect(loc, w, storedState, storedLegacy)[2]
          /\ journal' = Saved(loc, w)
    /\ now' = t
    /\ gpsLoading' = FALSE
    /\ gps' = [gps EXCEPT ![c] = [IdleCall EXCEPT !.phase = "resolved"]]
    /\ lastOp' = Op("geocoded", c)
    /\ UNCHANGED <<locationError, hasGeo, hydrated>>

\* rest of the success callback: the geocoding fetch settled (try or catch),
\* setLocation, setIsLoading(false), resolve()
GeocodeSettle(c, outcome, t, w) ==
    /\ gps[c].phase = "geocoding"
    /\ t \in Times
    /\ LET loc == GpsLocation(gps[c].lat, gps[c].lon, GeocodeLabel(outcome), t)
       IN /\ location' = loc
          /\ storedState' = SaveEffect(loc, w, storedState, storedLegacy)[1]
          /\ storedLegacy' = SaveEffect(loc, w, storedState, storedLegacy)[2]
          /\ journal' = Saved(loc, w)
    /\ now' = t
    /\ gpsLoading' = FALSE
    /\ gps' = [gps EXCEPT ![c] = [IdleCall EXCEPT !.phase = "resolved"]]
    /\ lastOp' = Op("geocoded", c)
    /\ UNCHANGED <<locationError, hasGeo, hydrated>>

\* updateManual(lat, lon, label)
UpdateManual(p, label, t, w) ==
    /\ hydrated
    /\ t \in Times
    /\ LET loc == ManualLocation(LatOf(p), LonOf(p), label, t)
       IN /\ location' = loc
          /\ storedState' = SaveEffect(loc, w, storedState, storedLegacy)[1]
          /\ storedLegacy' = SaveEffect(loc, w, storedState, storedLegacy)[2]
          /\ journal' = Saved(loc, w)
    /\ now' = t
    /\ locationError' = "none"
    /\ lastOp' = Op("manual", p)
    /\ UNCHANGED <<gpsLoading, hasGeo, gps, hydrated>>

\* clearError()
ClearError ==
    /\ hydrated
    /\ locationError' = "none"
    /\ lastOp' = Op("clearError", 0)
    /\ journal' = NotSaved
    /\ UNCHANGED <<location, gpsLoading, hasGeo, gps, now, storedState,
                   storedLegacy, hydrated>>

\* the page is reloaded: a new LocationProvider with the initial values of
\* its useState cells; callbacks of the old page never run; localStorage and
\* the clock stay
Restart ==
    /\ hydrated
    /\ journal.restarts < MaxRestarts
    /\ location' = DEFAULT_LOCATION
    /\ gpsLoading' = FALSE
    /\ locationError' = "none"
    /\ gps' = [c \in CallIds |-> IdleCall]
    /\ hydrated' = FALSE
    /\ journal' = [w |-> "none", prev |-> lastOp.op,
                   restarts |-> journal.restarts + 1,
                   run |-> [op |-> lastOp.op, arg |-> lastOp.arg,
                            w |-> journal.w, location |-> location]]
    /\ lastOp' = Op("restart", 0)
    /\ UNCHANGED <<hasGeo, now, storedState, storedLegacy>>

\* the operations of the store, on storage that accepts every write
LocNext ==
    \/ \E w \in WritesSucceed : Rehydrate(w) /\ UNCHANGED radarCells
    \/ \E c \in CallIds : GpsStart(c) /\ UNCHANGED radarCells
    \/ \E c \in CallIds, p \in Positions : GpsFix(c, p) /\ UNCHANGED radarCells
    \/ \E c \in CallIds, code \in ErrorCodes :
          GpsError(c, code) /\ UNCHANGED radarCells
    \/ \E c \in CallIds, o \in GeocodeOutcomes, t \in Times, w \in WritesSucceed :
          GeocodeSettle(c, o, t, w) /\ UNCHANGED radarCells
    \/ \E p \in Positions, label \in ManualLabels, t \in Times,
          w \in WritesSucceed :
          UpdateManual(p, label, t, w) /\ UNCHANGED radarCells
    \/ ClearError /\ UNCHANGED radarCells

LocSpec == LocInit /\ [][LocNext]_vars

\* manual entries and page reloads, on storage whose writes may throw
PersistNext ==
    \/ \E w \in WriteOutcomes : Rehydrate(w) /\ UNCHANGED radarCells
    \/ \E p \in Positions, label \in ManualLabels, t \in Times,
          w \in WriteOutcomes :
          UpdateManual(p, label, t, w) /\ UNCHANGED radarCells
    \/ Restart /\ UNCHANGED radarCells

PersistSpec == LocInit /\ [][PersistNext]_vars

(***************************************************************************)
(* The radar view together with the store it reads.                        *)
(***************************************************************************)
HandleCenterOnLocationSetsDefault(c) ==
    /\ mounted
    /\ ~loading
    /\ ~gpsLoading
    /\ hydrated
    /\ NextCall(c)
    /\ gpsLoading' = LoadingAfterStart(hasGeo, gpsLoading)
    /\ locationError' = (IF hasGeo THEN "none" ELSE UnsupportedMessage)
    /\ gps' = [gps EXCEPT ![c].phase = IF hasGeo THEN "acquiring"
                                                 ELSE "resolved"]
    /\ location' = DEFAULT_LOCATION
    /\ lastOp' = Op("center", c)
    /\ journal' = NotSaved
    /\ UNCHANGED <<hasGeo, now, storedState, storedLegacy, hydrated>>

\* the "Auf Standort zentrieren" button, rendered past the loading return and
\* disabled while the store is loading: clearError(), then updateFromGPS() up
\* to getCurrentPosition or to its early return
HandleCenterOnLocation(c) ==
    /\ mounted
    /\ ~loading
    /\ ~gpsLoading
    /\ hydrated
    /\ NextCall(c)
    /\ gpsLoading' = LoadingAfterStart(hasGeo, gpsLoading)
    /\ locationError' = (IF hasGeo THEN "none" ELSE UnsupportedMessage)
    /\ gps' = [gps EXCEPT ![c].phase = IF hasGeo THEN "acquiring"
                                                 ELSE "resolved"]
    /\ lastOp' = Op("center", c)
    /\ journal' = NotSaved
    /\ UNCHANGED <<location, hasGeo, now, storedState, storedLegacy, hydrated>>

\* the radar tab is open over a hydrated store with empty storage
AppInit ==
    /\ mounted = TRUE
    /\ mounts = 1
    /\ Fresh
    /\ LocFresh
    /\ hasGeo \in BOOLEAN
    /\ storedState = Empty
    /\ storedLegacy = Empty
    /\ hydrated = TRUE

\* the handlers of the radar view on a manifest of one past and one forecast
\* frame, the callbacks of the acquisitions it starts, and manual entries
\* made through the store by other consumers
AppNext ==
    \/ \E f \in inflight : FetchOk(f, 1, 1) /\ UNCHANGED locCells
    \/ \E f \in inflight : FetchFail(f) /\ UNCHANGED locCells
    \/ \E i \in 1..Len(timers) : Tick(i) /\ UNCHANGED locCells
    \/ TogglePlay /\ UNCHANGED locCells
    \/ SkipToStart /\ UNCHANGED locCells
    \/ SkipToEnd /\ UNCHANGED locCells
    \/ \E v \in 0..1 : SliderChange(v) /\ UNCHANGED locCells
    \/ \E m \in QuickSelect : JumpToTime(m) /\ UNCHANGED locCells
    \/ \E c \in CallIds : HandleCenterOnLocation(c) /\ UNCHANGED radarCells
    \/ \E c \in CallIds, p \in Positions : GpsFix(c, p) /\ UNCHANGED radarCells
    \/ \E c \in CallIds, code \in ErrorCodes :
          GpsError(c, code) /\ UNCHANGED radarCells
    \/ \E c \in CallIds, o \in GeocodeOutcomes, t \in Times, w \in WritesSucceed :
          GeocodeSettle(c, o, t, w) /\ UNCHANGED radarCells
    \/ \E p \in Positions, label \in ManualLabels, t \in Times,
          w \in WritesSucceed :
          UpdateManual(p, label, t, w) /\ UNCHANGED radarCells

AppSpec == AppInit /\ [][AppNext]_vars

\* the platform invokes one of the two callbacks of a pending acquisition
PlatformAnswers(c) ==
    /\ \/ \E p \in Positions : GpsFix(c, p)
       \/ \E code \in ErrorCodes : GpsError(c, code)
    /\ UNCHANGED radarCells

\* the reverse-geocoding request of a call settles
GeocodingSettles(c) ==
    /\ \E o \in GeocodeOutcomes, t \in Times, w \in WritesSucceed :
          GeocodeSettle(c, o, t, w)
    /\ UNCHANGED radarCells

\* the store under the assumption that the platform and the network answer
LocLiveSpec ==
    /\ LocSpec
    /\ \A c \in CallIds : WF_vars(PlatformAnswers(c))
    /\ \A c \in CallIds : WF_vars(GeocodingSettles(c))

TypeOK ==
    /\ mounted \in BOOLEAN
    /\ mounts \in 1..MaxMounts
    /\ radarData \in [id : 0..MaxFetches, past : 0..MaxPast,
                       nowcast : 0..MaxNowcast]
    /\ currentFrame \in {NaN} \cup (0..(MaxPast + MaxNowcast))
    /\ isPlaying \in BOOLEAN
    /\ loading \in BOOLEAN
    /\ error \in BOOLEAN
    /\ fetches \in 1..MaxFetches

(***************************************************************************)
(* Properties.                                                             *)
(***************************************************************************)
TotalFrames == AllFramesLength(radarData)

Scrubs == {"slider", "skipStart", "skipEnd"}

\* floor(m / 10) as the integer q with 10 q <= m < 10 q + 10
FloorTenth(m) == CHOOSE q \in (0 - 10)..10 : 10 * q <= m /\ m < 10 * q + 10

\* a re-fetch that was issued while playback was running is still pending
RefetchInProgress == \E f \in inflight : f.kind = "refetch" /\ f.playing

\* C1: whenever the loaded manifest has at least one frame, currentFrame is
\* an integer with 0 <= currentFrame < len(past) + len(nowcast).
C1_IndexInRange ==
    (radarData # NoData /\ TotalFrames >= 1)
        => currentFrame \in 0..(TotalFrames - 1)

\* a tick wrapped the index of a re-fetched three-frame manifest back to 0
C1_Witness ==
    /\ lastOp.op = "tick"
    /\ radarData.id >= 2
    /\ TotalFrames = 3
    /\ streak.start = 2
    /\ currentFrame = 0

\* C2 (as claimed): every successful manifest fetch, the first one and any
\* re-fetch, leaves currentFrame = max(0, len(past) - 1) and playing = false.
C2_FetchResetsIndexAndStopsPlayback ==
    lastOp.op = "fetchOk"
        => /\ radarData # NoData
           /\ currentFrame = (IF radarData.past >= 1 THEN radarData.past - 1
                                                     ELSE 0)
           /\ isPlaying = FALSE

\* C3: jumpToTime(m) on a loaded manifest with N past and M forecast frames
\* sets currentFrame to min(max(N - 1 + floor(m / 10), 0), N + M - 1), and
\* to 0 when the manifest has no frames.
C3_JumpTarget ==
    (lastOp.op = "jump" /\ radarData # NoData)
        => LET N == radarData.past
               M == radarData.nowcast
               t == N - 1 + FloorTenth(lastOp.arg)
               lo == IF t >= 0 THEN t ELSE 0
           IN currentFrame = (IF N + M = 0 THEN 0
                              ELSE IF lo <= N + M - 1 THEN lo ELSE N + M - 1)

\* jumpToTime(-25) with four past frames lands on frame 0 without clamping
C3_Witness ==
    /\ lastOp.op = "jump"
    /\ lastOp.arg = 0 - 25
    /\ radarData # NoData
    /\ radarData.past = 4
    /\ currentFrame = 0

\* C4: jumpToTime forces playing = false and removes the timer at once; a
\* tick fires only while playing, and playing turns on again only through
\* togglePlay, so no tick moves the index after a jump until then.
C4_JumpStopsPlayback ==
    [][ /\ (lastOp'.op = "jump" /\ radarData # NoData)
            => (~isPlaying' /\ timers' = << >>)
        /\ lastOp'.op = "tick" => (isPlaying /\ isPlaying')
        /\ (~isPlaying /\ isPlaying') => lastOp'.op = "toggle" ]_vars

\* a jump was issued while playback was running
C4_Witness ==
    /\ lastOp.op = "jump"
    /\ lastOp.playing
    /\ ~isPlaying
    /\ currentFrame = 2

\* C5: while playing with T >= 1 frames, k consecutive ticks starting at s
\* leave currentFrame = (s + k) mod T, so T consecutive ticks return it to s.
C5_TickWrapsAround ==
    (lastOp.op = "tick" /\ TotalFrames >= 1)
        => /\ streak.n \in 1..TotalFrames
           /\ currentFrame = (streak.start + streak.n) % TotalFrames
           /\ (streak.n = TotalFrames => currentFrame = streak.start)

\* three ticks in a row over three frames, back at the start
C5_Witness ==
    /\ lastOp.op = "tick"
    /\ TotalFrames = 3
    /\ streak.n = 3
    /\ streak.start = 1
    /\ currentFrame = 1

\* C6: a timer is alive only while the view is mounted, loaded and playing,
\* there is never more than one, and a tick fires only in such a state.
C6_TimerOnlyWhilePlaying ==
    /\ Len(timers) <= 1
    /\ timers # << >> => (mounted /\ ~loading /\ radarData # NoData /\ isPlaying)
    /\ lastOp.op = "tick" => (mounted /\ ~loading /\ radarData # NoData
                                /\ lastOp.playing)

\* playback was paused after a play/pause/play cycle and no timer is left
C6_Witness ==
    /\ lastOp.op = "toggle"
    /\ lastOp.playing
    /\ ~isPlaying
    /\ timers = << >>
    /\ mounted

\* C7 (as claimed): while a re-fetch issued during playback after a
\* successful load is in progress, the playback timer is torn down, and no
\* live timer or tick uses the frame count of a replaced manifest.
C7_NoTimerDuringRefetch ==
    /\ (RefetchInProgress /\ radarData # NoData) => timers = << >>
    /\ \A i \in 1..Len(timers) :
           /\ timers[i].id = radarData.id
           /\ timers[i].len = TotalFrames
    /\ lastOp.op = "tick" => lastOp.arg = radarData.id

\* C8: a scrub (slider, skip-to-start, skip-to-end) sets currentFrame to the
\* requested index inside [0, totalFrames - 1] and leaves playing unchanged;
\* a tick that follows it advances from the scrubbed index.
C8_ScrubSetsIndexOnly ==
    [][ /\ lastOp'.op \in Scrubs
            => /\ currentFrame' \in 0..(TotalFrames - 1)
               /\ isPlaying' = isPlaying
               /\ timers' = timers
               /\ radarData' = radarData
        /\ lastOp'.op = "slider" => currentFrame' = lastOp'.arg
        /\ lastOp'.op = "skipStart" => currentFrame' = 0
        /\ lastOp'.op = "skipEnd" => currentFrame' = TotalFrames - 1
        /\ (lastOp.op \in Scrubs /\ lastOp'.op = "tick")
            => currentFrame' = (currentFrame + 1) % TotalFrames ]_vars

\* the slider was moved to frame 2 while playback was running
C8_Witness ==
    /\ lastOp.op = "slider"
    /\ lastOp.arg = 2
    /\ lastOp.playing
    /\ isPlaying
    /\ timers # << >>

\* C9 (as claimed): playing is false in every state with zero frames.
C9_NotPlayingWithoutFrames ==
    TotalFrames = 0 => ~isPlaying

\* C10 (as claimed): no tick computes a remainder by zero, and currentFrame
\* stays a valid integer.
C10_NoDivisionByZero ==
    /\ currentFrame # NaN
    /\ \A i \in 1..Len(timers) : timers[i].len # 0

\* the init fetch was the last thing to happen, it failed, and no re-fetch
\* has completed
InitFetchFailedAlone ==
    /\ lastOp.op = "fetchFail"
    /\ lastOp.arg = 1
    /\ Cardinality({f \in inflight : f.kind = "refetch"}) = fetches - 1

\* C11: when the initial fetch fails the engine leaves Loading with the error
\* message set, no frames, index 0 and playback off; loading lasts only while
\* the init fetch is pending and ends once that fetch settles.
C11_InitialFetchFailure ==
    /\ [](InitFetchFailedAlone
            => /\ ~loading
               /\ error
               /\ radarData = NoData
               /\ TotalFrames = 0
               /\ currentFrame = 0
               /\ ~isPlaying
               /\ timers = << >>)
    /\ []((mounted /\ loading) => \E f \in inflight : f.kind = "init")
    /\ ((mounted /\ loading) ~> (~loading \/ ~mounted))

\* the first fetch failed and the view shows the error without frames
C11_Witness ==
    /\ lastOp.op = "fetchFail"
    /\ lastOp.arg = 1
    /\ fetches = 1
    /\ mounted
    /\ ~loading
    /\ error
    /\ radarData = NoData

\* C12 (as claimed): a non-2xx response always ends in the fetch-error state
\* and its body is never installed as the manifest.
C12_Non2xxIsFetchError ==
    [][lastOp'.op = "fetchNon2xx" => (error' /\ radarData' = radarData)]_vars

\* C13: after jumpToTime(0) on a manifest with at least one past frame the
\* minutes offset of currentFrame lies in [-5, 5] and the status line is the
\* one for current data.
C13_JumpToNowIsCurrent ==
    (lastOp.op = "jump" /\ lastOp.arg = 0 /\ radarData # NoData
         /\ radarData.past >= 1)
        => /\ GetMinutesOffset(radarData, currentFrame) \in (0 - 5)..5
           /\ GetRainText(radarData, currentFrame) = "Aktuelle Radardaten"

\* "Jetzt" was pressed during playback on a manifest with three past frames
C13_Witness ==
    /\ lastOp.op = "jump"
    /\ lastOp.arg = 0
    /\ lastOp.playing
    /\ radarData # NoData
    /\ radarData.past = 3
    /\ radarData.nowcast >= 1
    /\ currentFrame = 2

\* C14 (as claimed): the frame at index len(past) is the present-moment
\* frame: minutes offset 0, status current data, landing frame of
\* jumpToTime(0) and of the reset after a fetch.
C14_BoundaryFrameIsNow ==
    (radarData # NoData /\ radarData.past >= 1 /\ radarData.nowcast >= 1)
        => /\ GetMinutesOffset(radarData, radarData.past) = 0
           /\ GetRainText(radarData, radarData.past) = "Aktuelle Radardaten"
           /\ (lastOp.op = "jump" /\ lastOp.arg = 0)
                  => currentFrame = radarData.past
           /\ lastOp.op = "fetchOk" => currentFrame = radarData.past

\* C14 (amended): with at least one past frame the present-moment frame is
\* the last past frame, index len(past) - 1: offset 0, status current data,
\* no forecast badge, landing frame of jumpToTime(0) and of the reset after
\* a fetch; index len(past) is the first forecast frame, 10 minutes ahead.
C14_LastPastFrameIsNow ==
    (radarData # NoData /\ radarData.past >= 1)
        => /\ GetMinutesOffset(radarData, radarData.past - 1) = 0
           /\ GetRainText(radarData, radarData.past - 1) = "Aktuelle Radardaten"
           /\ ~IsForecastFrame(radarData, radarData.past - 1)
           /\ (lastOp.op = "jump" /\ lastOp.arg = 0)
                  => currentFrame = radarData.past - 1
           /\ lastOp.op = "fetchOk" => currentFrame = radarData.past - 1
           /\ GetMinutesOffset(radarData, radarData.past) = 10
           /\ GetRainText(radarData, radarData.past) = "Vorhersage"
           /\ IsForecastFrame(radarData, radarData.past)

\* a manifest with two past and two forecast frames was just loaded
C14_Witness ==
    /\ lastOp.op = "fetchOk"
    /\ radarData.past = 2
    /\ radarData.nowcast = 2
    /\ currentFrame = 1
    /\ ~loading

InFlight(c) == gps[c].phase \in {"acquiring", "geocoding"}

\* C15: a failed acquisition leaves LocationState (and what is stored) as it
\* was, sets the message of the platform's error code (four distinct
\* messages) and isLoading = false; starting the call does not touch
\* LocationState either; clearError only sets error to null.
C15_GpsFailureKeepsLocation ==
    [][ /\ lastOp'.op = "gpsError"
            => /\ location' = location
               /\ storedState' = storedState
               /\ storedLegacy' = storedLegacy
               /\ ~gpsLoading'
               /\ locationError' =
                     (CASE lastOp'.arg = 1 -> "Standortzugriff wurde verweigert."
                        [] lastOp'.arg = 2
                             -> "Standortinformationen sind nicht verfuegbar."
                        [] lastOp'.arg = 3
                             -> "Zeitueberschreitung bei der Standortabfrage."
                        [] OTHER -> "Ein unbekannter Fehler ist aufgetreten.")
               /\ Cardinality({GpsErrorMessage(code) : code \in ErrorCodes}) = 4
        /\ lastOp'.op = "gpsStart" => location' = location
        /\ lastOp'.op = "clearError"
            => /\ locationError' = "none"
               /\ location' = location
               /\ gpsLoading' = gpsLoading
               /\ gps' = gps ]_vars

\* permission was denied after a manual location had been entered
C15_Witness ==
    /\ lastOp.op = "gpsError"
    /\ lastOp.arg = PERMISSION_DENIED
    /\ locationError = "Standortzugriff wurde verweigert."
    /\ location.source = "manual"
    /\ location.lat = LatOf(2)
    /\ ~gpsLoading

\* C16 (as claimed): when the success path of a call ends, in every
\* interleaving, LocationState is the fix with a non-empty label, source gps
\* and lastUpdated = now, and error is null.
C16_GpsSuccessReplacesAndClears ==
    [][ lastOp'.op = "geocoded"
            => /\ location'.lat = gps[lastOp'.arg].lat
               /\ location'.lon = gps[lastOp'.arg].lon
               /\ location'.cityLabel \in {GeoName, FallbackLabel}
               /\ location'.cityLabel # ""
               /\ location'.source = "gps"
               /\ location'.lastUpdated = now'
               /\ locationError' = "none" ]_vars

\* C17 (as claimed): isLoading is true exactly while some acquisition is in
\* flight, also when calls overlap.
C17_LoadingWhileInFlight ==
    gpsLoading <=> \E c \in CallIds : InFlight(c)

\* C18: updateManual replaces LocationState by the entered position and
\* label with source manual and lastUpdated = now, sets error to null, and
\* touches neither isLoading nor any pending call.
C18_ManualReplacesState ==
    [][ lastOp'.op = "manual"
            => /\ location'.lat = LatOf(lastOp'.arg)
               /\ location'.lon = LonOf(lastOp'.arg)
               /\ location'.cityLabel \in ManualLabels
               /\ location'.source = "manual"
               /\ location'.lastUpdated = now'
               /\ DOMAIN location' = DOMAIN DEFAULT_LOCATION
               /\ locationError' = "none"
               /\ gpsLoading' = gpsLoading
               /\ gps' = gps ]_vars

\* a manual entry made while an acquisition was awaiting its geocoding
C18_Witness ==
    /\ lastOp.op = "manual"
    /\ location.source = "manual"
    /\ location.lat = LatOf(2)
    /\ locationError = "none"
    /\ gpsLoading
    /\ \E c \in CallIds : gps[c].phase = "geocoding"

\* C19: every updateFromGPS call that is in flight eventually resolves, the
\* early return resolves at once, and no call ends in another way.
C19_GpsCallsResolve ==
    /\ \A c \in CallIds : InFlight(c) ~> (gps[c].phase = "resolved")
    /\ [](\A c \in CallIds :
            gps[c].phase \in {"idle", "acquiring", "geocoding", "resolved"})
    /\ [][lastOp'.op \in {"gpsUnsupported", "gpsError", "geocoded"}
            => \A c \in CallIds : gps[c].phase # gps'[c].phase
                                      => gps'[c].phase = "resolved"]_vars

\* two calls have resolved, one through the error callback and one through
\* the geocoding fallback
C19_Witness ==
    /\ hasGeo
    /\ gps[1].phase = "resolved"
    /\ gps[2].phase = "resolved"
    /\ location.cityLabel = FallbackLabel
    /\ locationError # "none"

\* C20: without geolocation capability updateFromGPS sets the error and
\* resolves at once; LocationState and isLoading are unchanged and no
\* acquisition or geocoding request is ever started.
C20_NoCapability ==
    /\ [][ lastOp'.op = "gpsUnsupported"
              => /\ ~hasGeo
                 /\ locationError' = UnsupportedMessage
                 /\ location' = location
                 /\ gpsLoading' = gpsLoading
                 /\ gps'[lastOp'.arg].phase = "resolved" ]_vars
    /\ [](~hasGeo => (~gpsLoading /\ \A c \in CallIds : ~InFlight(c)))

\* the call returned early on a store that holds a manual location
C20_Witness ==
    /\ lastOp.op = "gpsUnsupported"
    /\ locationError = UnsupportedMessage
    /\ location.source = "manual"
    /\ location.lat = LatOf(1)
    /\ gps[1].phase = "resolved"
    /\ ~gpsLoading

\* C21: once a replacement of LocationState with both coordinates (manual
\* entry, GPS success, rehydration) has been saved, the primary record is the
\* serialized current LocationState and parses back to it; no stored record
\* has null coordinates; while the store holds the start-up default, storage
\* is what it was at start (empty stays empty).
C21_StoredEqualsState ==
    /\ (hydrated /\ location.lat # Null /\ location.lon # Null
           /\ journal.w = "ok")
          => /\ storedState = Serialize(location)
             /\ Parse(storedState) = location
    /\ storedState.kind = "state"
          => (Parse(storedState).lat # Null /\ Parse(storedState).lon # Null)
    /\ (hydrated /\ location = DEFAULT_LOCATION)
          => (storedState \in {Empty, Corrupt} /\ storedLegacy = Empty)

\* a GPS fix with a geocoded name was saved over a manual entry
C21_Witness ==
    /\ lastOp.op = "geocoded"
    /\ journal.prev = "manual"
    /\ journal.w = "ok"
    /\ location.source = "gps"
    /\ location.cityLabel = GeoName
    /\ storedState = Serialize(location)

\* C22 (as claimed): in every reachable state, also after a storage write
\* threw, the legacy record {lat, lon, name} is the projection
\* {lat, lon, cityLabel} of the primary record.
C22_RecordsWrittenTogether ==
    storedState.kind = "state"
        => /\ storedLegacy.kind = "legacy"
           /\ storedLegacy.text = [lat |-> Parse(storedState).lat,
                                   lon |-> Parse(storedState).lon,
                                   name |-> Parse(storedState).cityLabel]

\* the previous run ended with updateManual and this run has just rehydrated
ManualThenRestart ==
    /\ lastOp.op = "restart"
    /\ lastOp'.op = "rehydrate"
    /\ journal.run.op = "manual"

C24_LoadFailureKeepsDefault ==
    [][ (lastOp'.op = "rehydrate" /\ storedState = Corrupt)
            => /\ location' = DEFAULT_LOCATION
               /\ location'.lat = Null
               /\ location'.lon = Null
               /\ location'.cityLabel = ""
               /\ location'.lastUpdated = 0
               /\ locationError' = "none"
               /\ ~gpsLoading'
               /\ storedState' = storedState
               /\ storedLegacy' = storedLegacy
               /\ hydrated' ]_vars

\* start-up has completed over a record that does not parse
C24_Witness ==
    /\ lastOp.op = "rehydrate"
    /\ hydrated
    /\ storedState = Corrupt
    /\ location = DEFAULT_LOCATION
    /\ locationError = "none"

\* C25: in every reachable state of the store lat and lon are both present
\* or both absent, absent only in the start-up default; every change of
\* LocationState installs one complete record: the one parsed at start, the
\* one of a GPS success or the one of a manual entry.
C25_CoordinatesTogether ==
    /\ [](/\ (location.lat = Null) <=> (location.lon = Null)
          /\ location.lat = Null => location = DEFAULT_LOCATION
          /\ DOMAIN location = DOMAIN DEFAULT_LOCATION)
    /\ [][ location' # location
             => \/ /\ lastOp'.op = "rehydrate"
                   /\ location' = Parse(storedState)
                \/ /\ lastOp'.op = "geocoded"
                   /\ \E o \in GeocodeOutcomes :
                         location' = GpsLocation(gps[lastOp'.arg].lat,
                                                 gps[lastOp'.arg].lon,
                                                 GeocodeLabel(o), now')
                \/ /\ lastOp'.op = "manual"
                   /\ \E label \in ManualLabels :
                         location' = ManualLocation(LatOf(lastOp'.arg),
                                                    LonOf(lastOp'.arg),
                                                    label, now') ]_vars

\* a fix at position 2 replaced the record parsed at start, geocoding failed
C25_Witness ==
    /\ lastOp.op = "geocoded"
    /\ journal.prev = "gpsFix"
    /\ location.lat = LatOf(2)
    /\ location.lon = LonOf(2)
    /\ location.source = "gps"
    /\ location.cityLabel = FallbackLabel
    /\ storedState.kind = "state"

RadarOps == {"fetchOk", "fetchFail", "tick", "toggle", "skipStart",
             "skipEnd", "slider", "jump"}

StoreOps == {"gpsFix", "gpsError", "geocoded", "manual"}

\* C26: tick, togglePlay, scrub, jumpToTime and the manifest fetch leave
\* LocationState, isLoading, the location error, the pending calls and the
\* stored records unchanged; the center-on-location request changes the
\* store only as clearError followed by the start of updateFromGPS does and
\* never writes LocationState itself; the store's operations and the
\* request leave currentFrame, playing, the timer and the manifest unchanged.
C26_RadarNeverWritesLocation ==
    [][ /\ lastOp'.op \in RadarOps
            => /\ location' = location
               /\ gpsLoading' = gpsLoading
               /\ locationError' = locationError
               /\ gps' = gps
               /\ storedState' = storedState
               /\ storedLegacy' = storedLegacy
        /\ lastOp'.op = "center"
            => /\ location' = location
               /\ storedState' = storedState
               /\ storedLegacy' = storedLegacy
               /\ locationError' = (IF hasGeo THEN "none"
                                               ELSE UnsupportedMessage)
               /\ gpsLoading' = hasGeo
               /\ gps'[lastOp'.arg].phase = (IF hasGeo THEN "acquiring"
                                                       ELSE "resolved")
               /\ \A d \in CallIds \ {lastOp'.arg} : gps'[d] = gps[d]
        /\ lastOp'.op \in StoreOps \cup {"center"}
            => /\ currentFrame' = currentFrame
               /\ isPlaying' = isPlaying
               /\ timers' = timers
               /\ radarData' = radarData ]_vars

\* the button was pressed during playback over a manually entered location
C26_Witness ==
    /\ lastOp.op = "center"
    /\ lastOp.playing
    /\ isPlaying
    /\ timers # << >>
    /\ gpsLoading
    /\ location.source = "manual"
    /\ location.lat = LatOf(1)
    /\ currentFrame = 1

\* C28: when a re-fetch fails after a manifest was loaded, the manifest and
\* its frame sequence, currentFrame, playing and the timer are what they
\* were before, loading is untouched, and only the error message is set.
C28_FailedRefetchKeepsFrames ==
    [][ (lastOp'.op = "fetchFail" /\ lastOp'.arg >= 2 /\ radarData # NoData)
            => /\ radarData' = radarData
               /\ AllFramesLength(radarData') = TotalFrames
               /\ currentFrame' = currentFrame
               /\ isPlaying' = isPlaying
               /\ timers' = timers
               /\ loading' = loading
               /\ error' ]_vars

\* a re-fetch failed while the first manifest was playing at frame 2
C28_Witness ==
    /\ lastOp.op = "fetchFail"
    /\ lastOp.arg = 2
    /\ lastOp.playing
    /\ radarData.id = 1
    /\ TotalFrames >= 3
    /\ currentFrame = 2
    /\ isPlaying
    /\ timers # << >>
    /\ error

\* C29: LocationState is always the record of the update that completed
\* last: a GPS success installs its fix and a manual entry its position
\* whatever was there, an acquisition that finishes right after a manual
\* entry made while it was in flight overwrites it (source gps), no other
\* operation changes LocationState, and lastUpdated never decreases.
C29_CompletionOrder ==
    [][ /\ lastOp'.op = "geocoded"
            => /\ location'.source = "gps"
               /\ location'.lat = gps[lastOp'.arg].lat
               /\ location'.lon = gps[lastOp'.arg].lon
               /\ location'.lastUpdated = now'
        /\ lastOp'.op = "manual"
            => /\ location'.source = "manual"
               /\ location'.lat = LatOf(lastOp'.arg)
               /\ location'.lon = LonOf(lastOp'.arg)
               /\ location'.lastUpdated = now'
        /\ (lastOp.op = "manual" /\ lastOp'.op = "geocoded")
            => /\ location.source = "manual"
               /\ location'.source = "gps"
               /\ location' # location
        /\ lastOp'.op \notin {"geocoded", "manual", "rehydrate"}
            => location' = location
        /\ location'.lastUpdated >= location.lastUpdated ]_vars

\* an acquisition finished after the manual entry that was made while it was
\* awaiting its geocoding, and replaced it
C29_Witness ==
    /\ lastOp.op = "geocoded"
    /\ journal.prev = "manual"
    /\ location.source = "gps"
    /\ location.lat = LatOf(1)
    /\ location.lastUpdated = 2
    /\ \A c \in CallIds : ~InFlight(c)

=============================================================================
